---- MODULE Spec2Model ----
(***************************************************************************)
(* State machine of the Game component of react-tic-tac-toe               *)
(* (src/src/index.js): the history of board snapshots, the cursor         *)
(* stepNumber, the turn flag xIsNext and the display flag sortAscending,  *)
(* driven by the handlers handleClick, jumpTo and sort.                   *)
(***************************************************************************)
EXTENDS Integers, Sequences, FiniteSets, TLC

VARIABLES history, stepNumber, xIsNext, sortAscending, mounted, rendered, last

vars == <<history, stepNumber, xIsNext, sortAscending, mounted, rendered, last>>

(* ---------------------------------------------------------------------- *)
(* Bounds of the exploration                                               *)
(* ---------------------------------------------------------------------- *)

\* The user fills the lowest-numbered empty square, except that at most
\* MaxSkips moves of the game on the board are made on another empty square
\* (clicks that are rejected are not restricted).
MaxSkips == 1

\* jumpTo called directly is tried with steps from -MaxOut up to
\* history.length - 1 + MaxOut.
MaxOut == 2

(* ---------------------------------------------------------------------- *)
(* Values                                                                  *)
(* ---------------------------------------------------------------------- *)

\* JavaScript null in a square or a player field.
Null == "null"

\* Indices of the 9 squares, Array(9).
Cells == 0..8

Marks == {"X", "O"}

\* Array(9).fill(null)
EmptySquares == [c \in Cells |-> Null]

\* Entry k (0-based, as in the source) of a history array.
Entry(h, k) == h[k + 1]

\* Array.prototype.slice(0, end) on an array of length Len(h).
Slice0(h, end) ==
  LET n == Len(h)
      e == IF end < 0 THEN (IF n + end < 0 THEN 0 ELSE n + end)
           ELSE (IF end > n THEN n ELSE end)
  IN  SubSeq(h, 1, e)

\* The remainder operator % of JavaScript (sign of the dividend).
JsRem(a, b) == IF a >= 0 THEN a % b ELSE -((-a) % b)

(* ---------------------------------------------------------------------- *)
(* calculateWinner                                                         *)
(* ---------------------------------------------------------------------- *)

\* Slip: the diagonals are listed before the rows and the columns.
lines_DiagonalsFirst ==
  << <<0, 4, 8>>, <<2, 4, 6>>, <<0, 1, 2>>, <<3, 4, 5>>, <<6, 7, 8>>,
     <<0, 3, 6>>, <<1, 4, 7>>, <<2, 5, 8>> >>

lines == << <<0, 1, 2>>, <<3, 4, 5>>, <<6, 7, 8>>,
            <<0, 3, 6>>, <<1, 4, 7>>, <<2, 5, 8>>,
            <<0, 4, 8>>, <<2, 4, 6>> >>

\* The value returned for "no winner" (null in the source).
NoWinner == [player |-> Null, squares |-> << >>]

\* Slip: the comparison with squares[c] is left out.
LineMatches_TwoCells(squares, l) ==
  /\ squares[l[1]] # Null
  /\ squares[l[1]] = squares[l[2]]

\* if (squares[a] && squares[a] === squares[b] && squares[a] === squares[c])
LineMatches(squares, l) ==
  /\ squares[l[1]] # Null
  /\ squares[l[1]] = squares[l[2]]
  /\ squares[l[1]] = squares[l[3]]

RECURSIVE calculateWinnerFrom(_, _)
\* The loop for (let i = 0; i < lines.length; i++), from index i (1-based).
calculateWinnerFrom(squares, i) ==
  IF i > Len(lines) THEN NoWinner
  ELSE IF LineMatches(squares, lines[i])
       THEN [player |-> squares[lines[i][1]], squares |-> lines[i]]
       ELSE calculateWinnerFrom(squares, i + 1)

calculateWinner(squares) == calculateWinnerFrom(squares, 1)

(* ---------------------------------------------------------------------- *)
(* oneDimToTwoDimCoor                                                      *)
(* ---------------------------------------------------------------------- *)

\* Slip: the second line takes i - 3 for the column.
oneDimToTwoDimCoor_SecondLineOff(i) ==
  IF i < 3 THEN <<1, i + 1>>
  ELSE IF i < 6 THEN <<2, i - 3>>
  ELSE <<3, i - 5>>

oneDimToTwoDimCoor(i) ==
  IF i < 3 THEN <<1, i + 1>>
  ELSE IF i < 6 THEN <<2, i - 2>>
  ELSE <<3, i - 5>>

(* ---------------------------------------------------------------------- *)
(* The component state and its handlers                                    *)
(* ---------------------------------------------------------------------- *)

\* this.state as one value.
State ==
  [history |-> history, stepNumber |-> stepNumber, xIsNext |-> xIsNext,
   sortAscending |-> sortAscending]

\* Slip: the history is taken whole, without the slice.
ClickHistory_NoSlice == history

\* const history = this.state.history.slice(0, this.state.stepNumber + 1)
ClickHistory == Slice0(history, stepNumber + 1)

\* Slip: the test for a finished game alone.
ClickRejects_WinnerOnly(squares, i) == calculateWinner(squares) # NoWinner

\* Slip: the test for an occupied square alone.
ClickRejects_OccupiedOnly(squares, i) == squares[i] # Null

\* if (calculateWinner(squares) || squares[i]) return;
ClickRejects(squares, i) ==
  calculateWinner(squares) # NoWinner \/ squares[i] # Null

\* this.state.xIsNext ? 'X' : 'O'
ClickMark == IF xIsNext THEN "X" ELSE "O"

\* The entry handleClick(i) builds: the copy of squares with the mark in
\* square i, the move and the player.
ClickEntry(squares, i) ==
  [squares |-> [squares EXCEPT ![i] = ClickMark],
   move    |-> oneDimToTwoDimCoor(i),
   player  |-> ClickMark]

\* Slip: squares is current.squares itself, not a copy, so the assignment
\* squares[i] = ... also writes the stored snapshot of the current entry.
ClickAppend_InPlace(hist, squares, i) ==
  [hist EXCEPT ![Len(hist)].squares = ClickEntry(squares, i).squares]
    \o << ClickEntry(squares, i) >>

\* Slip: this.state.history.concat(...), the untruncated history.
ClickAppend_FullHistory(hist, squares, i) ==
  history \o << ClickEntry(squares, i) >>

\* history.concat([{squares, move, player}])
ClickAppend(hist, squares, i) == hist \o << ClickEntry(squares, i) >>

\* Slip: this.state.history.length, the length before the truncation.
ClickStep_FullLength(hist) == Len(history)

\* stepNumber: history.length
ClickStep(hist) == Len(hist)

\* Slip: the flag is not flipped.
ClickFlag_Kept == xIsNext

\* xIsNext: !this.state.xIsNext
ClickFlag == ~xIsNext

\* this.state after handleClick(i). With an empty slice, current is undefined
\* and current.squares throws before any setState.
handleClick(i) ==
  LET hist == ClickHistory
  IN  IF Len(hist) = 0 THEN State
      ELSE LET squares == hist[Len(hist)].squares
           IN  IF ClickRejects(squares, i)
               THEN State
               ELSE [State EXCEPT !.history    = ClickAppend(hist, squares, i),
                                  !.stepNumber = ClickStep(hist),
                                  !.xIsNext    = ClickFlag]

\* Slip: the flag is left as it was.
JumpFlag_Kept(step) == xIsNext

\* xIsNext: (step % 2) === 0
JumpFlag(step) == JsRem(step, 2) = 0

\* Variant: a jump that cuts the history at the step it jumps to.
jumpTo_Truncating(step) ==
  [State EXCEPT !.history    = Slice0(history, step + 1),
                !.stepNumber = step,
                !.xIsNext    = JumpFlag(step)]

\* Variant: a jump that ignores a step that is no index of the history.
jumpTo_Guarded(step) ==
  IF step \in 0..(Len(history) - 1)
  THEN [State EXCEPT !.stepNumber = step, !.xIsNext = JumpFlag(step)]
  ELSE State

\* this.state after jumpTo(step).
jumpTo(step) ==
  [State EXCEPT !.stepNumber = step, !.xIsNext = JumpFlag(step)]

\* this.state after sort().
sort == [State EXCEPT !.sortAscending = ~sortAscending]

\* render() reads history[this.state.stepNumber].squares: it throws when the
\* cursor is no index of the history.
RenderThrows(st) == st.stepNumber \notin 0..(Len(st.history) - 1)

\* Slip: the entry rendered is the last one of the history.
RenderCurrent_Last(st) == st.history[Len(st.history)]

\* const current = history[this.state.stepNumber] of render(), for the
\* state st.
RenderCurrent(st) == Entry(st.history, st.stepNumber)

\* What render() shows of the game for the state st: the status, as the pair
\* of the two strings it concatenates, and the winnerSquares handed to the
\* Board (undefined without a winner, << >> here).
render(st) ==
  LET winner == calculateWinner(RenderCurrent(st).squares)
  IN  IF winner # NoWinner
      THEN [status        |-> << "Winner : ", winner.player >>,
            winnerSquares |-> winner.squares]
      ELSE [status        |-> << "Next player : ",
                                 IF st.xIsNext THEN "X" ELSE "O" >>,
            winnerSquares |-> << >>]

\* The steps render() lists as history buttons: history.map((step, move) => ...).
ListedMoves == 0..(Len(history) - 1)

(* ---------------------------------------------------------------------- *)
(* Actions                                                                 *)
(* ---------------------------------------------------------------------- *)

\* The history of a new game: [{squares: Array(9).fill(null), move: [],
\* player: null}].
InitialHistory ==
  << [squares |-> EmptySquares, move |-> << >>, player |-> Null] >>

\* The game is over at the cursor: a winner, or no empty square.
GameOver ==
  \/ calculateWinner(Entry(history, stepNumber).squares) # NoWinner
  \/ \A c \in Cells : Entry(history, stepNumber).squares[c] # Null

\* The record of a handler call made in the present state: its name, its
\* argument, whether it changes this.state, the length of the history
\* before it and whether the game was over at the cursor before it.
Call(op, arg, st) ==
  [op |-> op, arg |-> arg, changed |-> st # State, len |-> Len(history),
   over |-> GameOver]

\* rendered is what the last render() showed; last is the record of the last
\* handler call.
Init ==
  /\ history = InitialHistory
  /\ stepNumber = 0
  /\ xIsNext = TRUE
  /\ sortAscending = TRUE
  /\ mounted = TRUE
  /\ rendered = render([history |-> InitialHistory, stepNumber |-> 0,
                        xIsNext |-> TRUE, sortAscending |-> TRUE])
  /\ last = [op |-> "constructor", arg |-> 0, changed |-> FALSE, len |-> 0,
             over |-> FALSE]

\* const current = history[this.state.stepNumber] of render().
current == Entry(history, stepNumber)

\* The lowest-numbered empty square of a snapshot with an empty square.
LowestEmpty(sq) ==
  CHOOSE c \in Cells : sq[c] = Null /\ \A d \in 0..(c - 1) : sq[d] # Null

\* The number of moves up to entry k that were not made on the
\* lowest-numbered empty square.
RECURSIVE Skips(_, _)
Skips(h, k) ==
  IF k = 0 THEN 0
  ELSE Skips(h, k - 1)
         + (IF Entry(h, k).squares[LowestEmpty(Entry(h, k - 1).squares)] = Null
            THEN 1 ELSE 0)

\* The squares a user clicks on the rendered board: any square while fewer
\* than MaxSkips moves were skips, then the occupied squares, the squares of
\* a finished game and the lowest-numbered empty one.
ClickInputs ==
  IF ~mounted THEN {}
  ELSE LET sq == current.squares
       IN  IF Skips(history, stepNumber) < MaxSkips
              \/ calculateWinner(sq) # NoWinner
           THEN Cells
           ELSE {c \in Cells : sq[c] # Null \/ c = LowestEmpty(sq)}

\* setState(st) and the render that follows it; an error thrown by render
\* takes the component off the page. The handlers below bind st to the one
\* state the handler computes.
SetState(st) ==
  /\ history' = st.history
  /\ stepNumber' = st.stepNumber
  /\ xIsNext' = st.xIsNext
  /\ sortAscending' = st.sortAscending
  /\ mounted' = ~RenderThrows(st)
  /\ rendered' = IF RenderThrows(st) THEN rendered ELSE render(st)

\* A click on square i of the rendered board.
HandleClick(i) ==
  /\ mounted
  /\ \E st \in {handleClick(i)} :
       /\ SetState(st)
       /\ last' = Call("handleClick", i, st)

\* A click on the history button of a listed move.
JumpToListed(step) ==
  /\ mounted
  /\ \E st \in {jumpTo(step)} :
       /\ SetState(st)
       /\ last' = Call("jumpTo", step, st)

\* jumpTo called with any step, listed or not.
JumpToAny(step) ==
  /\ mounted
  /\ \E st \in {jumpTo(step)} :
       /\ SetState(st)
       /\ last' = Call("jumpTo", step, st)

\* A click on the sort button.
Sort ==
  /\ mounted
  /\ \E st \in {sort} :
       /\ SetState(st)
       /\ last' = Call("sort", 0, st)

\* The operations the rendered interface offers.
Next ==
  \/ \E i \in ClickInputs : HandleClick(i)
  \/ \E step \in ListedMoves : JumpToListed(step)
  \/ Sort

Spec == Init /\ [][Next]_vars

\* The steps tried when jumpTo is called directly.
StepInputs == (0 - MaxOut)..(Len(history) - 1 + MaxOut)

\* The handlers called with any argument.
NextAny ==
  \/ \E i \in ClickInputs : HandleClick(i)
  \/ \E step \in StepInputs : JumpToAny(step)
  \/ Sort

SpecAny == Init /\ [][NextAny]_vars

\* A click that handleClick accepts: one that moves the cursor on.
AcceptedClick ==
  /\ stepNumber' = stepNumber + 1
  /\ \E i \in ClickInputs : HandleClick(i)

\* A click on a history button.
Jump == \E step \in ListedMoves : JumpToListed(step)

\* The interface with a user who goes on clicking empty squares as long as
\* handleClick accepts one.
SpecLive == Init /\ [][Next]_vars /\ WF_vars(AcceptedClick)

\* Every array of 9 squares over null, 'X' and 'O'.
Boards == [Cells -> Marks \cup {Null}]

\* Nothing rendered yet.
Unrendered == [status |-> << >>, winnerSquares |-> << >>]

\* A Game whose only history entry holds any board, before its first render.
InitBoards ==
  /\ history \in {<< [squares |-> b, move |-> << >>, player |-> Null] >> :
                     b \in Boards}
  /\ stepNumber = 0
  /\ xIsNext = TRUE
  /\ sortAscending = TRUE
  /\ mounted = TRUE
  /\ rendered = Unrendered
  /\ last = [op |-> "constructor", arg |-> 0, changed |-> FALSE, len |-> 0,
             over |-> FALSE]

\* The first render() of the Game: calculateWinner(current.squares) and the
\* status.
Render ==
  /\ rendered = Unrendered
  /\ rendered' = render(State)
  /\ UNCHANGED <<history, stepNumber, xIsNext, sortAscending, mounted, last>>

\* calculateWinner applied to every board.
SpecBoards == InitBoards /\ [][Render]_vars

(* ---------------------------------------------------------------------- *)
(* Properties                                                              *)
(* ---------------------------------------------------------------------- *)

\* The mark of the player whose turn the cursor gives: X at an even cursor.
MarkOfCursor == IF stepNumber % 2 = 0 THEN "X" ELSE "O"

\* The last handler call was an accepted click.
ClickAccepted == last.op = "handleClick" /\ last.changed

\* The last handler call was a click that changed nothing.
ClickRejected == last.op = "handleClick" /\ ~last.changed

\* C1: in every reachable state, for every cell i in 0..8 that is empty in the
\* snapshot at the cursor, when that snapshot has no winner, handleClick(i)
\* is accepted and sets history, cursor and turn flag in the one step: the
\* cursor moves on by one, the flag flips, the history ends with the new
\* current snapshot, and that snapshot holds the mark of the player of the
\* old cursor parity in cell i and equals the old current snapshot in the 8
\* other cells.
C1_AcceptedClickPlacesMark ==
  \A i \in Cells :
    (calculateWinner(current.squares) = NoWinner /\ current.squares[i] = Null)
    => LET st  == handleClick(i)
           new == Entry(st.history, st.stepNumber).squares
       IN  /\ st.stepNumber = stepNumber + 1
           /\ st.xIsNext = ~xIsNext
           /\ Len(st.history) = st.stepNumber + 1
           /\ new # current.squares
           /\ new[i] = MarkOfCursor
           /\ \A c \in Cells \ {i} : new[c] = current.squares[c]

\* An accepted click has placed an O (the cursor was odd).
C1_Witness ==
  /\ ClickAccepted
  /\ current.player = "O"
  /\ current.squares[last.arg] = "O"

\* C2: in every reachable state, for every cell i that is non-empty in the
\* snapshot at the cursor, handleClick(i) leaves this.state as it is: the
\* history with its entries after the cursor, the cursor and the turn flag.
C2_OccupiedClickIsNoOp ==
  \A i \in Cells : current.squares[i] # Null => handleClick(i) = State

\* A click on an occupied cell of an unfinished snapshot was rejected while
\* entries after the cursor were left over from a rewind.
C2_Witness ==
  /\ ClickRejected
  /\ current.squares[last.arg] # Null
  /\ calculateWinner(current.squares) = NoWinner
  /\ stepNumber < Len(history) - 1

\* C3: in every reachable state whose snapshot at the cursor has a winner,
\* handleClick(i) leaves this.state as it is for every i in 0..8, the empty
\* cells included.
C3_ClickAfterWinIsNoOp ==
  calculateWinner(current.squares) # NoWinner
  => \A i \in Cells : handleClick(i) = State

\* A click on an empty cell of a won snapshot was rejected.
C3_Witness ==
  /\ ClickRejected
  /\ calculateWinner(current.squares) # NoWinner
  /\ current.squares[last.arg] = Null

\* C4: in every reachable state, with cursor c, an accepted handleClick(i)
\* yields a history of length c + 2 whose entries 0..c are the previous
\* entries 0..c and whose last entry is the new snapshot, and the cursor
\* c + 1; the previous entries after c are gone.
C4_AcceptedClickTruncates ==
  \A i \in Cells :
    LET st == handleClick(i)
    IN  st # State
        => /\ Len(st.history) = stepNumber + 2
           /\ \A k \in 0..stepNumber : Entry(st.history, k) = Entry(history, k)
           /\ Entry(st.history, stepNumber + 1).squares
                = [current.squares EXCEPT ![i] = MarkOfCursor]
           /\ st.stepNumber = stepNumber + 1

\* An accepted click after a rewind has discarded at least two entries.
C4_Witness ==
  /\ ClickAccepted
  /\ last.len >= Len(history) + 1
  /\ stepNumber = Len(history) - 1

\* C5: in every reachable state, jumpTo(step) with 0 <= step < history
\* length sets the cursor to step and leaves the history as it is, entries
\* after the new cursor included.
C5_JumpKeepsHistory ==
  \A step \in ListedMoves :
    /\ jumpTo(step).stepNumber = step
    /\ jumpTo(step).history = history

\* A jump has moved the cursor and entries after the new cursor remain.
C5_Witness ==
  /\ last.op = "jumpTo"
  /\ last.changed
  /\ stepNumber = last.arg
  /\ stepNumber < Len(history) - 1
  /\ last.len = Len(history)

\* C6 as claimed: a jumpTo whose step is no index of the history changes
\* nothing.
C6_OutOfRangeJumpIsNoOp ==
  (last.op = "jumpTo" /\ last.arg \notin 0..(last.len - 1)) => ~last.changed

\* C6 as the code has it: jumpTo has no range check. In every reachable
\* state, jumpTo(step) with a step that is no index of the history sets the
\* cursor to step and the turn flag to "step is even", and leaves the
\* history as it is; the cursor is then no index of the history.
C6_OutOfRangeJumpMovesCursor ==
  \A step \in StepInputs \ ListedMoves :
    LET st == jumpTo(step)
    IN  /\ st.stepNumber = step
        /\ st.xIsNext = (step % 2 = 0)
        /\ st.history = history
        /\ RenderThrows(st)

\* A jump to a negative step has been made.
C6_Witness ==
  /\ last.op = "jumpTo"
  /\ last.arg < 0
  /\ stepNumber = last.arg
  /\ ~mounted

\* C7: in every state reached by clicks and jumps to listed steps, the flag
\* xIsNext is true exactly when stepNumber is even.
C7_FlagIsCursorParity == xIsNext = (stepNumber % 2 = 0)

\* A jump has landed on an odd step from an even one.
C7_Witness ==
  /\ last.op = "jumpTo"
  /\ last.changed
  /\ stepNumber % 2 = 1
  /\ ~xIsNext

\* C8: in every state reached through the operations of the interface, the
\* cursor is an index of the history.
C8_CursorInRange == 0 <= stepNumber /\ stepNumber <= Len(history) - 1

\* A click after a rewind has shortened the history.
C8_Witness ==
  /\ ClickAccepted
  /\ last.len > Len(history)

\* C9: no step changes the 9 cells of a stored entry: every entry of the
\* history is still there with the same cells after the step, except the
\* entries after the cursor, which an accepted click discards.
C9_SnapshotsNeverMutated ==
  [][\A k \in 0..(Len(history) - 1) :
       (k <= stepNumber \/ ~(last'.op = "handleClick" /\ last'.changed))
       => /\ k < Len(history')
          /\ Entry(history', k).squares = Entry(history, k).squares]_vars

\* An accepted click has appended a fifth entry to four kept ones.
C9_Witness ==
  /\ ClickAccepted
  /\ Len(history) = 5

\* C10: in every reachable state, for all history indices j < k and every
\* cell c, a mark in cell c of entry j is in cell c of entry k as well.
C10_MarksNeverReset ==
  \A k \in 0..(Len(history) - 1) : \A j \in 0..(k - 1) : \A c \in Cells :
    Entry(history, j).squares[c] # Null
    => Entry(history, k).squares[c] = Entry(history, j).squares[c]

\* A click after a rewind has replaced discarded entries by a new one.
C10_Witness ==
  /\ ClickAccepted
  /\ last.len >= Len(history)
  /\ Len(history) >= 4

\* The eight triples in the order the specification gives them.
ClaimedTriples ==
  << <<0, 1, 2>>, <<3, 4, 5>>, <<6, 7, 8>>, <<0, 3, 6>>, <<1, 4, 7>>,
     <<2, 5, 8>>, <<0, 4, 8>>, <<2, 4, 6>> >>

\* The three cells of triple tr are non-empty and equal in sq.
TripleFull(sq, tr) ==
  sq[tr[1]] \in Marks /\ sq[tr[2]] = sq[tr[1]] /\ sq[tr[3]] = sq[tr[1]]

\* C11: for every board of 9 cells over empty, X and O, calculateWinner
\* returns the first triple, in the order [0,1,2],[3,4,5],[6,7,8],[0,3,6],
\* [1,4,7],[2,5,8],[0,4,8],[2,4,6], whose three cells are non-empty and equal,
\* with the mark in those cells, and none exactly when there is no such
\* triple (so also on a full board without three in a row).
C11_FirstFullTriple ==
  LET sq   == current.squares
      full == {n \in 1..8 : TripleFull(sq, ClaimedTriples[n])}
      w    == calculateWinner(sq)
  IN  /\ (w = NoWinner) <=> (full = {})
      /\ full # {}
         => LET n == CHOOSE m \in full : \A o \in full : m <= o
            IN  /\ w.squares = ClaimedTriples[n]
                /\ w.player = sq[ClaimedTriples[n][1]]

\* A board with the row [3,4,5] of X and the diagonal [0,4,8] of X was
\* rendered with the row as the winning squares.
C11_Witness ==
  /\ rendered.winnerSquares = <<3, 4, 5>>
  /\ rendered.status = << "Winner : ", "X" >>
  /\ TripleFull(current.squares, <<0, 4, 8>>)
  /\ \A c \in Cells : current.squares[c] # Null

\* The mark m fills some triple of the snapshot sq.
HasLine(sq, m) ==
  \E n \in 1..8 : \A p \in 1..3 : sq[ClaimedTriples[n][p]] = m

\* C12: in every snapshot stored in the history of a reachable state, no
\* triple is all X while another is all O; so every full triple holds the
\* mark calculateWinner reports, whatever the order of the triples.
C12_OneWinnerAtMost ==
  \A k \in 0..(Len(history) - 1) :
    LET sq == Entry(history, k).squares
    IN  /\ ~(HasLine(sq, "X") /\ HasLine(sq, "O"))
        /\ \A n \in 1..8 :
             TripleFull(sq, ClaimedTriples[n])
             => calculateWinner(sq).player = sq[ClaimedTriples[n][1]]

\* The last move has completed two triples at once, the second of which
\* calculateWinner does not report.
C12_Witness ==
  /\ ClickAccepted
  /\ \E n \in 1..8 :
       /\ TripleFull(current.squares, ClaimedTriples[n])
       /\ calculateWinner(current.squares).squares # ClaimedTriples[n]

\* C13: a step that jumps from a cursor where the game is over (a winner,
\* or a full board) back to an earlier step k whose snapshot has no winner
\* leads to a state where handleClick(i) is accepted for every cell i that is
\* empty in snapshot k, and the history it yields is the entries 0..k
\* followed by the one new entry.
C13_RewindReenablesMoves ==
  [][(/\ GameOver
      /\ last'.op = "jumpTo"
      /\ stepNumber' < stepNumber
      /\ calculateWinner(current.squares)' = NoWinner)
     => (\A i \in Cells :
           current.squares[i] = Null
           => LET st == handleClick(i)
              IN  /\ st # State
                  /\ Len(st.history) = stepNumber + 2
                  /\ SubSeq(st.history, 1, stepNumber + 1)
                       = SubSeq(history, 1, stepNumber + 1)
                  /\ Entry(st.history, stepNumber + 1).squares[i] # Null)']_vars

\* The last call was a jump from a finished game back to an earlier step
\* with empty cells, the entries after it still stored.
C13_Witness ==
  /\ last.op = "jumpTo"
  /\ last.over
  /\ last.changed
  /\ stepNumber < Len(history) - 1
  /\ ~GameOver

\* C14: in every reachable state the history is non-empty and its entry 0
\* is the initial snapshot: 9 empty cells, no move and no player.
C14_InitialEntryKept ==
  /\ Len(history) >= 1
  /\ \A c \in Cells : Entry(history, 0).squares[c] = Null
  /\ Entry(history, 0).player = Null
  /\ Entry(history, 0).move = << >>

\* A click at cursor 0 after a rewind has cut the history down to entry 0
\* and the new entry.
C14_Witness ==
  /\ ClickAccepted
  /\ last.len >= 3
  /\ Len(history) = 2

\* C15: for every cell i in 0..8, oneDimToTwoDimCoor(i) is the 1-based pair
\* (i div 3 + 1, i mod 3 + 1), and in every reachable state the entry an
\* accepted handleClick(i) appends carries that pair as its move and the
\* mark just placed in cell i as its player.
C15_MoveRecord ==
  \A i \in Cells :
    /\ oneDimToTwoDimCoor(i) = << (i \div 3) + 1, (i % 3) + 1 >>
    /\ LET st == handleClick(i)
       IN  st # State
           => LET e == Entry(st.history, st.stepNumber)
              IN  /\ e.move = << (i \div 3) + 1, (i % 3) + 1 >>
                  /\ e.player \in Marks
                  /\ e.player = e.squares[i]
                  /\ current.squares[i] = Null

\* An accepted click on cell 5 has recorded row 2, column 3 for O.
C15_Witness ==
  /\ ClickAccepted
  /\ last.arg = 5
  /\ current.move = <<2, 3>>
  /\ current.player = "O"

\* The status for the snapshot sq at a cursor of the parity of step.
StatusFor(sq, step) ==
  IF calculateWinner(sq) # NoWinner
  THEN << "Winner : ", calculateWinner(sq).player >>
  ELSE << "Next player : ", IF step % 2 = 0 THEN "X" ELSE "O" >>

\* The snapshot at the cursor is full and has no winner.
Drawn ==
  /\ \A c \in Cells : current.squares[c] # Null
  /\ calculateWinner(current.squares) = NoWinner

\* C16: in every reachable state the status on the page is the winner status
\* naming P when calculateWinner on the snapshot at the cursor reports P, and
\* otherwise the next-player status naming X at an even cursor and O at an
\* odd one; on a full board without a winner it is the next-player status,
\* and it is still that status after a click on any cell.
C16_StatusFromCursor ==
  /\ rendered.status = StatusFor(current.squares, stepNumber)
  /\ Drawn
     => /\ rendered.status[1] = "Next player : "
        /\ \A i \in Cells : render(handleClick(i)).status = rendered.status

\* A click on a full board without a winner was rejected and the page still
\* names the next player.
C16_Witness ==
  /\ Drawn
  /\ ClickRejected
  /\ rendered.status = << "Next player : ", "O" >>

\* C17: in every reachable state, calculateWinner reports no winner on any
\* history entry but the last.
C17_OnlyLastEntryWon ==
  \A k \in 0..(Len(history) - 2) :
    calculateWinner(Entry(history, k).squares) = NoWinner

\* The last entry is won and the cursor has been moved back from it.
C17_Witness ==
  /\ calculateWinner(Entry(history, Len(history) - 1).squares) # NoWinner
  /\ last.op = "jumpTo"
  /\ stepNumber < Len(history) - 1

\* C18: in every reachable state, when calculateWinner reports a winner on
\* history entry k, then k >= 5 and the winner is the player recorded in
\* entry k, X for odd k and O for even k: never the player to move next.
C18_WinnerMadeLastMove ==
  \A k \in 0..(Len(history) - 1) :
    LET w == calculateWinner(Entry(history, k).squares)
    IN  w # NoWinner
        => /\ k >= 5
           /\ w.player = Entry(history, k).player
           /\ w.player = (IF k % 2 = 1 THEN "X" ELSE "O")

\* O has won with the sixth move.
C18_Witness ==
  /\ ClickAccepted
  /\ stepNumber = 6
  /\ calculateWinner(current.squares).player = "O"

\* The number of cells of sq that hold m.
Count(sq, m) == Cardinality({c \in Cells : sq[c] = m})

\* C19: in every reachable state, entry k of the history has k non-empty
\* cells, ceil(k/2) of X and floor(k/2) of O; for k >= 1 it differs from
\* entry k-1 in exactly one cell and its player is X for odd k and O for
\* even k; the history has at most 10 entries and the cursor is at most 9.
C19_EntryKHasKMarks ==
  /\ Len(history) <= 10
  /\ stepNumber <= 9
  /\ \A k \in 0..(Len(history) - 1) :
       LET e == Entry(history, k)
       IN  /\ Count(e.squares, "X") = (k + 1) \div 2
           /\ Count(e.squares, "O") = k \div 2
           /\ Count(e.squares, Null) = 9 - k
           /\ k >= 1
              => /\ Cardinality({c \in Cells :
                      e.squares[c] # Entry(history, k - 1).squares[c]}) = 1
                 /\ e.player = (IF k % 2 = 1 THEN "X" ELSE "O")

\* The ninth move has filled the board: 10 entries, cursor 9.
C19_Witness ==
  /\ ClickAccepted
  /\ Len(history) = 10
  /\ stepNumber = 9

\* C20: if from some point on no jump is made any more, and clicks on empty
\* cells go on being made as long as one is accepted, then the game ends: the
\* snapshot at the cursor gets a winner or is full, and stays so; whenever
\* the game is over at the cursor, handleClick rejects every cell; and the
\* game stays over as long as no jump is made.
C20_GameEndsWithoutRewind ==
  /\ (<>[][~Jump]_vars) => <>[]GameOver
  /\ [](GameOver => \A i \in Cells : handleClick(i) = State)
  /\ [][(GameOver /\ ~Jump) => GameOver']_vars

\* Nine clicks in a row, no jump, have filled the board, and a tenth click
\* was rejected.
C20_Witness ==
  /\ GameOver
  /\ ClickRejected
  /\ last.over
  /\ Len(history) = 10
  /\ stepNumber = 9

====
